---------------------------- MODULE Spec2Model ----------------------------
(***************************************************************************)
(* A model of the digitron micro-benchmark (digitron.c): the node pool     *)
(* with its intrusive freelist, the environment, and the tree-walking      *)
(* evaluator.  The pool and the evaluator are independent in the source    *)
(* (the evaluator never allocates), so each has its own next-state         *)
(* relation: Spec runs the pool, SpecEval runs the evaluator on trees of   *)
(* every kind, SpecRem runs it on the % trees.                             *)
(***************************************************************************)
EXTENDS Integers, Sequences, FiniteSets, TLC

(***************************************************************************)
(* Bounds of the model.                                                    *)
(***************************************************************************)
\* The pool's capacity.  digitron.c:47 sets it to 10000; the model runs the
\* same code on a pool of this many chunks.
MAX_EXPR_NODES == 3
\* How many allocate() calls past exhaustion the history keeps.
MaxExtraAllocs == 2
\* Inputs bound to x: the integers -1..MaxInput.
MaxInput == 1
\* Executions between two environment_init() calls.
MaxRounds == 2
\* Operands of the % trees, in halves: dividends -MaxRemNum/2..MaxRemNum/2,
\* divisors -MaxRemDen/2..MaxRemDen/2.
MaxRemNum == 14
MaxRemDen == 5

(***************************************************************************)
(* Program constants.                                                      *)
(***************************************************************************)
ENV_SIZE == 26
REGISTER_COUNT == 10
ID_CONSTANT == 0
ID_ADD == 1
ID_SUB == 2
ID_MUL == 3
ID_DIV == 4
ID_REM == 5
ID_SQRT == 6
ID_LOAD == 7
ID_STORE == 8
ID_IDENT == 9

\* The null pointer.  Chunks are named 1..MAX_EXPR_NODES (chunk i is
\* freelist_memory[i-1]).
NULL == 0
Chunks == 1..MAX_EXPR_NODES

VARIABLES
  \* ---- the pool (digitron.c:223-251)
  freelist_memory,   \* chunk |-> its next field (the union's pointer view)
  freelist_head,     \* NULL or a chunk
  aborted,           \* expr_create called abort()
  \* ---- history of the pool's calls (not program state)
  inited,            \* freelist_init() has run
  live,              \* chunks returned by allocate() and not since deallocated
  disciplined,       \* every deallocate(e) so far was of a live e
  lastOp,            \* the last call
  retWasLive,        \* the last allocate() returned a chunk that was still live
  rets,              \* allocate() results since freelist_init(), while no deallocate happened
  pristine,          \* no deallocate since freelist_init()
  deallocRun,        \* the live chunks deallocated in the last run of deallocate() calls, in order
  allocRun,          \* what the allocate() calls since that run returned (at most as many)
  \* ---- the evaluator (digitron.c:97-221)
  env,               \* the environment: inputs and registers
  prog,              \* the tree last executed
  pre,               \* the environment that execution started from
  result,               \* its outcome
  rounds             \* executions since the last environment_init()

poolVars == <<freelist_memory, freelist_head, aborted, inited, live, disciplined,
              lastOp, retWasLive, rets, pristine, deallocRun, allocRun>>
evalVars == <<env, prog, pre, result, rounds>>
vars == <<poolVars, evalVars>>

(***************************************************************************)
(* The pool.                                                               *)
(***************************************************************************)

\* The chunks reachable from c by next pointers, in order, following at
\* most k links (a cyclic list is cut after k).
RECURSIVE Walk(_, _, _)
Walk(mem, c, k) ==
  IF c = NULL \/ k = 0 THEN <<>>
  ELSE <<c>> \o Walk(mem, mem[c], k - 1)

\* The freelist as allocate() would hand it out; one link more than the pool
\* has chunks, so that a cycle shows as a repeated chunk.
FreeSeq == Walk(freelist_memory, freelist_head, MAX_EXPR_NODES + 1)
FreeSet == {FreeSeq[i] : i \in 1..Len(FreeSeq)}
FreelistAcyclic ==
  /\ Len(FreeSeq) <= MAX_EXPR_NODES
  /\ \A i, j \in 1..Len(FreeSeq) : FreeSeq[i] = FreeSeq[j] => i = j

\* freelist_init's loop: chunk i points to chunk i+1, the last to NULL.
InitialLinks(i) == IF i = MAX_EXPR_NODES THEN NULL ELSE i + 1

freelist_init ==
  /\ ~aborted
  /\ freelist_memory' = [i \in Chunks |-> InitialLinks(i)]
  /\ freelist_head' = 1
  /\ inited' = TRUE
  /\ live' = {}
  /\ disciplined' = TRUE
  /\ lastOp' = "freelist_init"
  /\ retWasLive' = FALSE
  /\ rets' = <<>>
  /\ pristine' = TRUE
  /\ deallocRun' = <<>>
  /\ allocRun' = <<>>
  /\ UNCHANGED <<aborted, evalVars>>

\* What allocate() returns, and the head it leaves.  (AllocResultNext and
\* AllocHeadStuck are faulty variants: the chunk after the head is returned;
\* the head is not advanced.)
AllocResultNext(mem, head) == IF head = NULL THEN NULL ELSE mem[head]
AllocResult(mem, head) == head
AllocHeadStuck(mem, head) == head
AllocHead(mem, head) == IF head = NULL THEN NULL ELSE mem[head]

\* The history's part of one allocate() call that returned c.
Recorded(c) ==
  /\ live' = IF c = NULL THEN live ELSE live \cup {c}
  /\ retWasLive' = (c # NULL /\ c \in live)
  /\ rets' = IF ~pristine THEN rets
             ELSE IF Len(rets) < MAX_EXPR_NODES + MaxExtraAllocs THEN Append(rets, c)
             ELSE [rets EXCEPT ![Len(rets)] = c]
  /\ allocRun' = IF Len(allocRun) < Len(deallocRun) THEN Append(allocRun, c) ELSE allocRun
  /\ UNCHANGED deallocRun

allocate ==
  /\ ~aborted
  /\ LET c == AllocResult(freelist_memory, freelist_head) IN
       /\ freelist_head' = AllocHead(freelist_memory, freelist_head)
       /\ Recorded(c)
  /\ lastOp' = "allocate"
  /\ UNCHANGED <<freelist_memory, aborted, inited, disciplined, pristine, evalVars>>

\* deallocate(e): e's next field takes the old head, e becomes the head.
\* Nothing in the code looks at whether e is live.  (DeallocMemNoLink is a
\* faulty variant: the link is not written.)
DeallocMemNoLink(mem, head, e) == mem
DeallocMem(mem, head, e) == [mem EXCEPT ![e] = head]

deallocate(e) ==
  /\ ~aborted
  /\ freelist_memory' = DeallocMem(freelist_memory, freelist_head, e)
  /\ freelist_head' = e
  /\ live' = live \ {e}
  /\ disciplined' = (disciplined /\ e \in live)
  /\ pristine' = FALSE
  /\ deallocRun' = IF e \notin live THEN <<>>
                   ELSE IF lastOp = "deallocate" THEN Append(deallocRun, e)
                   ELSE <<e>>
  /\ allocRun' = <<>>
  /\ lastOp' = "deallocate"
  /\ rets' = <<>>
  /\ UNCHANGED <<aborted, inited, retWasLive, evalVars>>

\* expr_create(type): allocate(), abort() on NULL, then the node is written.
\* The node shares its storage with the chunk's next field (union
\* expr_chunk), so the write leaves there something that is no longer the
\* chunk's link; the model draws it from GarbageLinks.
GarbageLinks == {NULL, 1}

expr_create(garbage) ==
  /\ ~aborted
  /\ LET c == AllocResult(freelist_memory, freelist_head) IN
       /\ freelist_head' = AllocHead(freelist_memory, freelist_head)
       /\ Recorded(c)
       /\ aborted' = (c = NULL)
       /\ freelist_memory' = IF c = NULL THEN freelist_memory
                             ELSE [freelist_memory EXCEPT ![c] = garbage]
  /\ lastOp' = "allocate"
  /\ UNCHANGED <<inited, disciplined, pristine, evalVars>>

PoolInit ==
  /\ freelist_memory = [i \in Chunks |-> NULL]
  /\ freelist_head = NULL
  /\ aborted = FALSE
  /\ inited = FALSE
  /\ live = {}
  /\ disciplined = TRUE
  /\ lastOp = "none"
  /\ retWasLive = FALSE
  /\ rets = <<>>
  /\ pristine = FALSE
  /\ deallocRun = <<>>
  /\ allocRun = <<>>


(***************************************************************************)
(* Values.  A double is modelled exactly where IEEE-754 arithmetic is      *)
(* exact: a finite value is sign, magnitude n/d with d a power of two (in  *)
(* lowest terms), so zero is signed; inf is signed; nan.  +, -, *, / and   *)
(* sqrt are correctly rounded, so when the real result is such a value the *)
(* double is exactly it.  When it is not (1/3, sqrt(2)), or an operand is  *)
(* already such a result, the value is kept as the term rnd(op, l, r):     *)
(* "what the operation returns on these operands".  Equal terms are equal  *)
(* doubles.  Magnitudes stay far below 2^53 within the model's bounds.     *)
(***************************************************************************)
RECURSIVE Norm(_, _)
Norm(n, d) == IF d > 1 /\ n % 2 = 0 THEN Norm(n \div 2, d \div 2) ELSE <<n, d>>

Num(s, n, d) == LET nd == Norm(n, d) IN [k |-> "num", s |-> s, n |-> nd[1], d |-> nd[2]]
IntVal(i) == IF i < 0 THEN Num(1, -i, 1) ELSE Num(0, i, 1)
Inf(s) == [k |-> "inf", s |-> s]
NaN == [k |-> "nan"]
Rnd(op, l, r) == [k |-> "rnd", op |-> op, l |-> l, r |-> r]
Zero == Num(0, 0, 1)

IsZero(v) == v.k = "num" /\ v.n = 0
Neg(v) == [v EXCEPT !.s = 1 - v.s]
Xor(a, b) == (a + b) % 2
Abs(i) == IF i < 0 THEN -i ELSE i

RECURSIVE GCD(_, _)
GCD(a, b) == IF b = 0 THEN a ELSE GCD(b, a % b)

RECURSIVE IsPow2(_)
IsPow2(n) == IF n = 1 THEN TRUE ELSE IF n % 2 = 1 THEN FALSE ELSE IsPow2(n \div 2)

IsSquare(n) == \E q \in 0..n : q * q = n
ISqrt(n) == CHOOSE q \in 0..n : q * q = n

\* l + r on operands that are finite or infinite.
AddExact(l, r) ==
  IF l.k = "inf" /\ r.k = "inf" THEN (IF l.s = r.s THEN l ELSE NaN)
  ELSE IF l.k = "inf" THEN l
  ELSE IF r.k = "inf" THEN r
  ELSE LET a == (IF l.s = 1 THEN -1 ELSE 1) * l.n * r.d
                + (IF r.s = 1 THEN -1 ELSE 1) * r.n * l.d
       IN IF a = 0
          THEN Num(IF IsZero(l) /\ IsZero(r) /\ l.s = 1 /\ r.s = 1 THEN 1 ELSE 0, 0, 1)
          ELSE Num(IF a < 0 THEN 1 ELSE 0, Abs(a), l.d * r.d)

\* The C operators +, -, *, / on doubles, and sqrt().
FAdd(l, r) ==
  IF l.k = "nan" \/ r.k = "nan" THEN NaN
  ELSE IF l.k = "rnd" \/ r.k = "rnd" THEN Rnd(ID_ADD, l, r)
  ELSE AddExact(l, r)

FSub(l, r) ==
  IF l.k = "nan" \/ r.k = "nan" THEN NaN
  ELSE IF l.k = "rnd" \/ r.k = "rnd" THEN Rnd(ID_SUB, l, r)
  ELSE AddExact(l, Neg(r))

FMul(l, r) ==
  IF l.k = "nan" \/ r.k = "nan" THEN NaN
  ELSE IF l.k = "rnd" \/ r.k = "rnd" THEN Rnd(ID_MUL, l, r)
  ELSE LET s == Xor(l.s, r.s) IN
       IF l.k = "inf" \/ r.k = "inf"
       THEN (IF IsZero(l) \/ IsZero(r) THEN NaN ELSE Inf(s))
       ELSE Num(s, l.n * r.n, l.d * r.d)

FDiv(l, r) ==
  IF l.k = "nan" \/ r.k = "nan" THEN NaN
  ELSE IF l.k = "rnd" \/ r.k = "rnd" THEN Rnd(ID_DIV, l, r)
  ELSE LET s == Xor(l.s, r.s) IN
       IF l.k = "inf" THEN (IF r.k = "inf" THEN NaN ELSE Inf(s))
       ELSE IF r.k = "inf" THEN Num(s, 0, 1)
       ELSE IF IsZero(r) THEN (IF IsZero(l) THEN NaN ELSE Inf(s))
       ELSE IF IsZero(l) THEN Num(s, 0, 1)
       ELSE LET n == l.n * r.d
                d == l.d * r.n
                g == GCD(n, d)
            IN IF IsPow2(d \div g) THEN Num(s, n \div g, d \div g)
               ELSE Rnd(ID_DIV, l, r)

FSqrt(a) ==
  IF a.k = "nan" THEN NaN
  ELSE IF a.k = "rnd" THEN Rnd(ID_SQRT, a, a)
  ELSE IF a.k = "inf" THEN (IF a.s = 0 THEN a ELSE NaN)
  ELSE IF IsZero(a) THEN a
  ELSE IF a.s = 1 THEN NaN
  ELSE IF IsSquare(a.n) /\ IsSquare(a.d) THEN Num(0, ISqrt(a.n), ISqrt(a.d))
  ELSE Rnd(ID_SQRT, a, a)

\* (int64_t) v of a finite v: the fraction is dropped, toward zero.
Trunc(v) == IF v.s = 1 THEN -(v.n \div v.d) ELSE v.n \div v.d

\* C's % on int64_t, the divisor not zero: the sign follows the dividend.
\* (CRemFloor is a faulty variant: the sign follows the divisor.)
CRemFloor(a, b) == IF b > 0 THEN a % b ELSE -((-a) % (-b))
CRem(a, b) == IF a >= 0 THEN a % Abs(b) ELSE -((-a) % Abs(b))


(***************************************************************************)
(* Expression trees and the environment.                                   *)
(***************************************************************************)
Constant(v) == [type |-> ID_CONSTANT, value |-> v]
Binary(t, l, r) == [type |-> t, left |-> l, right |-> r]
Sqrt(a) == [type |-> ID_SQRT, argument |-> a]
Load(i) == [type |-> ID_LOAD, reg_index |-> i]
Store(i, a) == [type |-> ID_STORE, reg_index |-> i, argument |-> a]
Ident(c) == [type |-> ID_IDENT, name |-> c]

BinaryTypes == {ID_ADD, ID_SUB, ID_MUL, ID_DIV, ID_REM}
\* name - 'a' for the identifier x.
X == 23

\* environment_init: every input and every register is 0.0.
ZeroEnv ==
  [inputs |-> [i \in 0..(ENV_SIZE - 1) |-> Zero],
   registers |-> [i \in 0..(REGISTER_COUNT - 1) |-> Zero]]

execute_env_read(e, name) == e.inputs[name]

execute_env_reg_load(e, index) == e.registers[index]

\* Returns the environment written; the value returned is the value passed.
\* (Faulty variants: the write is lost; the write goes to the next register.)
execute_env_reg_store_lost(e, index, value) == e
execute_env_reg_store_next(e, index, value) ==
  [e EXCEPT !.registers[(index + 1) % REGISTER_COUNT] = value]
execute_env_reg_store(e, index, value) ==
  [e EXCEPT !.registers[index] = value]

(***************************************************************************)
(* Execution.  m is the environment together with the history of this      *)
(* execution: the registers stored so far, and the registers loaded before *)
(* any store to them.  An outcome is [val, m, st]: st is "ok"; or "trap"   *)
(* when the run was killed by a hardware trap; or "outside" when a cast to *)
(* int64_t was applied to a value the model has no exact number for.       *)
(* ub says how the build resolves the undefined % by zero in execute_rem.   *)
(***************************************************************************)
Ok(v, m) == [val |-> v, m |-> m, st |-> "ok"]
Stop(st, m) == [val |-> Zero, m |-> m, st |-> st]

\* What % by zero does: trap (x86-64 idiv, wasm i64.rem_s), or return the
\* dividend (AArch64: sdiv gives 0, msub then gives the dividend).
UBOutcomes == {"trap", "dividend"}

RECURSIVE Exec(_, _, _)

execute_constant(e, m, ub) == Ok(e.value, m)

\* The first two statements of each binary execute_*: left, then right.
\* (OperandsRightFirst is a faulty variant: right, then left.)
OperandsRightFirst(e, m, ub) ==
  LET r == Exec(e.right, m, ub) IN
  IF r.st # "ok" THEN [l |-> Zero, r |-> Zero, m |-> r.m, st |-> r.st]
  ELSE LET l == Exec(e.left, r.m, ub) IN
       [l |-> l.val, r |-> r.val, m |-> l.m, st |-> l.st]
Operands(e, m, ub) ==
  LET l == Exec(e.left, m, ub) IN
  IF l.st # "ok" THEN [l |-> Zero, r |-> Zero, m |-> l.m, st |-> l.st]
  ELSE LET r == Exec(e.right, l.m, ub) IN
       [l |-> l.val, r |-> r.val, m |-> r.m, st |-> r.st]

execute_add(e, m, ub) ==
  LET o == Operands(e, m, ub) IN
  IF o.st # "ok" THEN Stop(o.st, o.m) ELSE Ok(FAdd(o.l, o.r), o.m)

execute_sub(e, m, ub) ==
  LET o == Operands(e, m, ub) IN
  IF o.st # "ok" THEN Stop(o.st, o.m) ELSE Ok(FSub(o.l, o.r), o.m)

execute_mul(e, m, ub) ==
  LET o == Operands(e, m, ub) IN
  IF o.st # "ok" THEN Stop(o.st, o.m) ELSE Ok(FMul(o.l, o.r), o.m)

\* (execute_div_right_first is a faulty variant of execute_div.)
execute_div_right_first(e, m, ub) ==
  LET o == OperandsRightFirst(e, m, ub) IN
  IF o.st # "ok" THEN Stop(o.st, o.m) ELSE Ok(FDiv(o.l, o.r), o.m)
execute_div(e, m, ub) ==
  LET o == Operands(e, m, ub) IN
  IF o.st # "ok" THEN Stop(o.st, o.m) ELSE Ok(FDiv(o.l, o.r), o.m)

\* irem = ((int64_t) l) % ((int64_t) r); return (double) irem.
RemOf(l, r, ub) ==
  IF l.k # "num" \/ r.k # "num" THEN [st |-> "outside", val |-> Zero]
  ELSE IF Trunc(r) = 0
  THEN (IF ub = "trap" THEN [st |-> "trap", val |-> Zero]
        ELSE [st |-> "ok", val |-> IntVal(Trunc(l))])
  ELSE [st |-> "ok", val |-> IntVal(CRem(Trunc(l), Trunc(r)))]

execute_rem(e, m, ub) ==
  LET o == Operands(e, m, ub) IN
  IF o.st # "ok" THEN Stop(o.st, o.m)
  ELSE LET x == RemOf(o.l, o.r, ub) IN
       IF x.st # "ok" THEN Stop(x.st, o.m) ELSE Ok(x.val, o.m)

execute_sqrt(e, m, ub) ==
  LET a == Exec(e.argument, m, ub) IN
  IF a.st # "ok" THEN a ELSE Ok(FSqrt(a.val), a.m)

execute_load(e, m, ub) ==
  LET index == e.reg_index IN
  Ok(execute_env_reg_load(m.env, index),
     [m EXCEPT !.early = IF index \in m.stored THEN @ ELSE @ \cup {index}])

execute_store(e, m, ub) ==
  LET index == e.reg_index
      v == Exec(e.argument, m, ub)
  IN IF v.st # "ok" THEN v
     ELSE Ok(v.val, [env |-> execute_env_reg_store(v.m.env, index, v.val),
                     stored |-> v.m.stored \cup {index},
                     early |-> v.m.early])

execute_ident(e, m, ub) ==
  LET name == e.name IN Ok(execute_env_read(m.env, name), m)

\* e->exec(e, env): the node's own execute function.
Exec(e, m, ub) ==
  CASE e.type = ID_CONSTANT -> execute_constant(e, m, ub)
    [] e.type = ID_ADD -> execute_add(e, m, ub)
    [] e.type = ID_SUB -> execute_sub(e, m, ub)
    [] e.type = ID_MUL -> execute_mul(e, m, ub)
    [] e.type = ID_DIV -> execute_div(e, m, ub)
    [] e.type = ID_REM -> execute_rem(e, m, ub)
    [] e.type = ID_SQRT -> execute_sqrt(e, m, ub)
    [] e.type = ID_LOAD -> execute_load(e, m, ub)
    [] e.type = ID_STORE -> execute_store(e, m, ub)
    [] e.type = ID_IDENT -> execute_ident(e, m, ub)

\* One whole execution of tree e from environment ev.
Run(e, ev, ub) == Exec(e, [env |-> ev, stored |-> {}, early |-> {}], ub)


(***************************************************************************)
(* Program texts and the parser.  A text is its sequence of tokens         *)
(* (whitespace carries no meaning).  The parser's code is not in the       *)
(* source shown; it is the grammar of the design document: multiplicative  *)
(* operators bind tighter than additive ones, all binary operators         *)
(* associate to the left, and @sqrt, @load and @store take their arguments *)
(* in parentheses.                                                         *)
(***************************************************************************)
Tok(t, v) == [t |-> t, v |-> v]
TNum(v) == Tok("num", v)
TX == Tok("ident", X)
TOp(id) == Tok("op", id)
LP == Tok("(", 0)
RP == Tok(")", 0)
COMMA == Tok(",", 0)
TSQRT == Tok("@sqrt", 0)
TLOAD == Tok("@load", 0)
TSTORE == Tok("@store", 0)

multiplicative_ops == {ID_MUL, ID_DIV, ID_REM}
additive_ops == {ID_ADD, ID_SUB}

\* functions[16]: "0 * @store(1, x * x) + 1 / @sqrt(@load(1) + 1) + @load(1) / 4 / @sqrt(@load(1) + 1)"
Function16 ==
  <<TNum(0), TOp(ID_MUL), TSTORE, LP, TNum(1), COMMA, TX, TOp(ID_MUL), TX, RP,
    TOp(ID_ADD), TNum(1), TOp(ID_DIV), TSQRT, LP, TLOAD, LP, TNum(1), RP,
    TOp(ID_ADD), TNum(1), RP,
    TOp(ID_ADD), TLOAD, LP, TNum(1), RP, TOp(ID_DIV), TNum(4), TOp(ID_DIV),
    TSQRT, LP, TLOAD, LP, TNum(1), RP, TOp(ID_ADD), TNum(1), RP>>

\* functions[17]: "0 * @store(1, x * x) + 0 * @store(2, 1 + @load(1)) + 1 / @load(2) - @load(1) / @load(2)"
Function17 ==
  <<TNum(0), TOp(ID_MUL), TSTORE, LP, TNum(1), COMMA, TX, TOp(ID_MUL), TX, RP,
    TOp(ID_ADD), TNum(0), TOp(ID_MUL), TSTORE, LP, TNum(2), COMMA, TNum(1),
    TOp(ID_ADD), TLOAD, LP, TNum(1), RP, RP,
    TOp(ID_ADD), TNum(1), TOp(ID_DIV), TLOAD, LP, TNum(2), RP,
    TOp(ID_SUB), TLOAD, LP, TNum(1), RP, TOp(ID_DIV), TLOAD, LP, TNum(2), RP>>

\* functions[18]: "@store(5, x - 1) / @sqrt(1 + @load(5) * @load(5))"
Function18 ==
  <<TSTORE, LP, TNum(5), COMMA, TX, TOp(ID_SUB), TNum(1), RP, TOp(ID_DIV),
    TSQRT, LP, TNum(1), TOp(ID_ADD), TLOAD, LP, TNum(5), RP, TOp(ID_MUL),
    TLOAD, LP, TNum(5), RP, RP>>

NoTree == [type |-> -1]
Fail == [ok |-> FALSE, tree |-> NoTree, pos |-> 0]
Got(tree, pos) == [ok |-> TRUE, tree |-> tree, pos |-> pos]
At(toks, pos) == IF pos <= Len(toks) THEN toks[pos] ELSE Tok("end", 0)

RECURSIVE parse_expr(_, _)
RECURSIVE parse_term(_, _)
RECURSIVE parse_factor(_, _)
RECURSIVE parse_additive_rest(_, _, _)
RECURSIVE parse_multiplicative_rest(_, _, _)

\* factor: a literal, an identifier, a parenthesised expression, or a call.
parse_factor(toks, pos) ==
  LET t == At(toks, pos) IN
  CASE t.t = "num" -> Got(Constant(IntVal(t.v)), pos + 1)
    [] t.t = "ident" -> Got(Ident(t.v), pos + 1)
    [] t.t = "(" ->
         LET a == parse_expr(toks, pos + 1) IN
         IF a.ok /\ At(toks, a.pos).t = ")" THEN Got(a.tree, a.pos + 1) ELSE Fail
    [] t.t = "@sqrt" ->
         IF At(toks, pos + 1).t # "(" THEN Fail
         ELSE LET a == parse_expr(toks, pos + 2) IN
              IF a.ok /\ At(toks, a.pos).t = ")" THEN Got(Sqrt(a.tree), a.pos + 1)
              ELSE Fail
    [] t.t = "@load" ->
         IF /\ At(toks, pos + 1).t = "("
            /\ At(toks, pos + 2).t = "num"
            /\ At(toks, pos + 3).t = ")"
         THEN Got(Load(At(toks, pos + 2).v), pos + 4)
         ELSE Fail
    [] t.t = "@store" ->
         IF /\ At(toks, pos + 1).t = "("
            /\ At(toks, pos + 2).t = "num"
            /\ At(toks, pos + 3).t = ","
         THEN LET a == parse_expr(toks, pos + 4) IN
              IF a.ok /\ At(toks, a.pos).t = ")"
              THEN Got(Store(At(toks, pos + 2).v, a.tree), a.pos + 1)
              ELSE Fail
         ELSE Fail
    [] OTHER -> Fail

\* term: factor (("*" | "/" | "%") factor)*, associating to the left.
parse_multiplicative_rest(toks, acc, pos) ==
  LET t == At(toks, pos) IN
  IF t.t = "op" /\ t.v \in multiplicative_ops
  THEN LET f == parse_factor(toks, pos + 1) IN
       IF f.ok THEN parse_multiplicative_rest(toks, Binary(t.v, acc, f.tree), f.pos)
       ELSE Fail
  ELSE Got(acc, pos)

parse_term(toks, pos) ==
  LET f == parse_factor(toks, pos) IN
  IF f.ok THEN parse_multiplicative_rest(toks, f.tree, f.pos) ELSE Fail

\* expr: term (("+" | "-") term)*, associating to the left.
parse_additive_rest(toks, acc, pos) ==
  LET t == At(toks, pos) IN
  IF t.t = "op" /\ t.v \in additive_ops
  THEN LET f == parse_term(toks, pos + 1) IN
       IF f.ok THEN parse_additive_rest(toks, Binary(t.v, acc, f.tree), f.pos)
       ELSE Fail
  ELSE Got(acc, pos)

parse_expr(toks, pos) ==
  LET f == parse_term(toks, pos) IN
  IF f.ok THEN parse_additive_rest(toks, f.tree, f.pos) ELSE Fail

\* The tree of a whole text; NoTree when the text is malformed.
Parse(toks) ==
  LET a == parse_expr(toks, 1) IN
  IF a.ok /\ a.pos = Len(toks) + 1 THEN a.tree ELSE NoTree

Program16 == Parse(Function16)
Program17 == Parse(Function17)
Program18 == Parse(Function18)
ReferencePrograms == {Program16, Program17, Program18}


(***************************************************************************)
(* The trees executed.                                                     *)
(***************************************************************************)
InputVals == (-1)..MaxInput
Registers == 0..(REGISTER_COUNT - 1)
Three == Constant(IntVal(3))

Halves(k) == {Num(sg, n, 2) : sg \in {0, 1}, n \in 0..k} \ {Num(1, 0, 2)}

\* l % r on constant operands.
RemTrees ==
  {Binary(ID_REM, Constant(l), Constant(r)) : l \in Halves(MaxRemNum), r \in Halves(MaxRemDen)}

\* A binary node with a store on one side and a load of that register on the other.
OrderTrees ==
  {Binary(t, Store(1, a), Load(1)) : t \in BinaryTypes, a \in {Three, Ident(X)}}
  \cup {Binary(t, Load(1), Store(1, a)) : t \in BinaryTypes, a \in {Three, Ident(X)}}

\* Stores: every register, and one register with arguments of every kind.
StoreArgs ==
  {Ident(X), Load(5), Sqrt(Ident(X)), Binary(ID_SUB, Ident(X), Load(1)),
   Binary(ID_REM, Three, Ident(X)), Store(5, Ident(X))}
StoreTrees ==
  {Store(i, Three) : i \in Registers} \cup {Store(1, a) : a \in StoreArgs}

\* Trees with no store in them, one of each kind.
PlainTrees ==
  {Three, Ident(X), Load(1), Load(5), Sqrt(Load(1))}
  \cup {Binary(t, Ident(X), Load(1)) : t \in BinaryTypes}

EvalTrees == OrderTrees \cup StoreTrees \cup PlainTrees \cup ReferencePrograms

(***************************************************************************)
(* The evaluator's steps.                                                  *)
(***************************************************************************)
NoResult == [val |-> Zero, st |-> "ok", stored |-> {}, early |-> {}]

\* An environment is a local of the benchmark's driver: while only the pool
\* is in use there is none.
NoEnv == <<>>
EvalIdle ==
  /\ env = NoEnv
  /\ prog = NoTree
  /\ pre = NoEnv
  /\ result = NoResult
  /\ rounds = 0

\* The driver has created an environment and called environment_init.
EvalInit ==
  /\ env = ZeroEnv
  /\ prog = NoTree
  /\ pre = NoEnv
  /\ result = NoResult
  /\ rounds = 0

environment_init ==
  /\ result.st # "trap"
  /\ env' = ZeroEnv
  /\ prog' = NoTree
  /\ pre' = NoEnv
  /\ result' = NoResult
  /\ rounds' = 0
  /\ UNCHANGED poolVars

\* One round of the benchmark: the input v is bound to x, then the tree is
\* executed in that environment.  A trap ends the process.  Executions that
\* leave the values the model has exact numbers for ("outside") are not run.
Round(v, t, ub) ==
  /\ result.st # "trap"
  /\ rounds < MaxRounds
  /\ LET start == [env EXCEPT !.inputs[X] = IntVal(v)]
         o == Run(t, start, ub)
     IN /\ o.st # "outside"
        /\ env' = o.m.env
        /\ prog' = t
        /\ pre' = start
        /\ result' = [val |-> o.val, st |-> o.st, stored |-> o.m.stored, early |-> o.m.early]
  /\ rounds' = rounds + 1
  /\ UNCHANGED poolVars

(***************************************************************************)
(* Specifications.                                                         *)
(***************************************************************************)
\* The pool on its own, from the program's start.
Init == PoolInit /\ EvalIdle

Next ==
  \/ freelist_init
  \/ allocate
  \/ \E e \in Chunks : deallocate(e)
  \/ \E g \in GarbageLinks : expr_create(g)

Spec == Init /\ [][Next]_vars

\* The evaluator on an initialised environment; the pool is not touched.
InitEval == PoolInit /\ EvalInit

NextEval ==
  \/ environment_init
  \/ \E v \in InputVals, t \in EvalTrees, ub \in UBOutcomes : Round(v, t, ub)

SpecEval == InitEval /\ [][NextEval]_vars

NextRem ==
  \/ environment_init
  \/ \E t \in RemTrees, ub \in UBOutcomes : Round(MaxInput, t, ub)

SpecRem == InitEval /\ [][NextRem]_vars


(***************************************************************************)
(* The pool's claims (under Spec).                                         *)
(***************************************************************************)

\* C1: after freelist_init(), with no deallocate in between, the first
\* MAX_EXPR_NODES allocate() calls each return a chunk, no chunk twice, and
\* every allocate() after them returns NULL.
C1_ExhaustedAfterCapacity ==
  pristine =>
    \A i \in 1..Len(rets) :
      /\ i <= MAX_EXPR_NODES =>
           /\ rets[i] \in Chunks
           /\ \A j \in 1..(i - 1) : rets[j] # rets[i]
      /\ i > MAX_EXPR_NODES => rets[i] = NULL

C1_Witness ==
  /\ pristine
  /\ Len(rets) = MAX_EXPR_NODES + MaxExtraAllocs
  /\ rets[MAX_EXPR_NODES] # NULL
  /\ rets[MAX_EXPR_NODES + 1] = NULL

\* C2: after live chunks e1, ..., ek are deallocated in that order, the next
\* allocate() calls return ek, ..., e1 in that order (k = 1: the chunk just
\* deallocated comes back).
C2_LifoReuse ==
  \A i \in 1..Len(allocRun) :
    allocRun[i] = deallocRun[Len(deallocRun) - i + 1]

C2_Witness ==
  /\ Len(deallocRun) >= 2
  /\ Len(allocRun) = Len(deallocRun)
  /\ allocRun[1] = deallocRun[Len(deallocRun)]
  /\ lastOp = "allocate"

\* C3: after freelist_init(), as long as every deallocate(e) was of a live
\* e, the freelist is acyclic and NULL-terminated, and the live chunks and
\* the freelist's chunks partition the pool.
C3_Partition ==
  (inited /\ disciplined) =>
    /\ FreelistAcyclic
    /\ FreeSet \cap live = {}
    /\ FreeSet \cup live = Chunks
    /\ Cardinality(live) + Len(FreeSeq) = MAX_EXPR_NODES
    /\ Cardinality(live) <= MAX_EXPR_NODES

C3_Witness ==
  /\ inited /\ disciplined
  /\ lastOp = "deallocate"
  /\ Cardinality(live) >= 1
  /\ Len(FreeSeq) >= 2
  /\ freelist_head # 1

\* C4: whatever sequence of calls the pool accepts, no chunk is on the
\* freelist twice and allocate() never returns a chunk that is still live.
C4_NoDoubleFreeNoReuseOfLive ==
  inited => (FreelistAcyclic /\ ~retWasLive)


(***************************************************************************)
(* The evaluator's claims (under SpecEval and SpecRem).  prog is the tree  *)
(* last executed, pre the environment it started from, result its outcome and *)
(* env the environment it left.                                            *)
(***************************************************************************)
IsLeaf(a) == a.type \in {ID_CONSTANT, ID_IDENT}
LeafValue(a, e) == IF a.type = ID_CONSTANT THEN a.value ELSE e.inputs[a.name]

\* Truncation toward zero, said without division: the integer of the same
\* sign whose magnitude is the largest not above the value's.
TowardZero(v) ==
  LET mag == CHOOSE i \in 0..v.n : i * v.d <= v.n /\ v.n < (i + 1) * v.d
  IN IF v.s = 1 THEN -mag ELSE mag
\* The quotient of integers a and b, b not zero, truncated toward zero.
TruncDiv(a, b) ==
  LET q == CHOOSE i \in 0..Abs(a) : i * Abs(b) <= Abs(a) /\ Abs(a) < (i + 1) * Abs(b)
  IN IF (a < 0) = (b < 0) THEN q ELSE -q

\* The operator of a binary node on operand values l and r (for ID_REM, on
\* finite operands whose divisor does not truncate to zero).
Applied(t, l, r) ==
  CASE t = ID_ADD -> FAdd(l, r)
    [] t = ID_SUB -> FSub(l, r)
    [] t = ID_MUL -> FMul(l, r)
    [] t = ID_DIV -> FDiv(l, r)
    [] t = ID_REM -> IntVal(TowardZero(l) - TowardZero(r) * TruncDiv(TowardZero(l), TowardZero(r)))
RemDefined(t, l, r) ==
  t = ID_REM => (l.k = "num" /\ r.k = "num" /\ TowardZero(r) # 0)

StoreThenLoad(p) ==
  /\ p.type \in BinaryTypes
  /\ p.left.type = ID_STORE /\ p.right.type = ID_LOAD
  /\ p.left.reg_index = p.right.reg_index
  /\ IsLeaf(p.left.argument)
LoadThenStore(p) ==
  /\ p.type \in BinaryTypes
  /\ p.left.type = ID_LOAD /\ p.right.type = ID_STORE
  /\ p.left.reg_index = p.right.reg_index
  /\ IsLeaf(p.right.argument)

\* C5: a binary node executes its left subtree, then its right subtree: a
\* load to the right of a store reads the value just stored, a load to the
\* left of a store reads what the register held before; and functions[18]
\* returns (x-1)/sqrt(1+(x-1)*(x-1)) whatever register 5 held, which is 0
\* for x = 1.
C5_LeftBeforeRight ==
  /\ StoreThenLoad(prog) =>
       LET v == LeafValue(prog.left.argument, pre) IN
       RemDefined(prog.type, v, v) =>
         (result.st = "ok" /\ result.val = Applied(prog.type, v, v))
  /\ LoadThenStore(prog) =>
       LET old == pre.registers[prog.left.reg_index]
           v == LeafValue(prog.right.argument, pre)
       IN RemDefined(prog.type, old, v) =>
            (result.st = "ok" /\ result.val = Applied(prog.type, old, v))
  /\ prog = Program18 =>
       LET w == FSub(pre.inputs[X], IntVal(1)) IN
       /\ result.st = "ok"
       /\ result.val = FDiv(w, FSqrt(FAdd(IntVal(1), FMul(w, w))))
       /\ pre.inputs[X] = IntVal(1) => result.val = Zero

C5_Witness ==
  /\ LoadThenStore(prog)
  /\ prog.type = ID_SUB
  /\ pre.registers[1] = IntVal(3)
  /\ prog.right.argument = Ident(X)
  /\ pre.inputs[X] = IntVal(1)
  /\ result.val = IntVal(2)

\* C6: Store(r, e) returns the value e evaluated to and leaves it in
\* register r, where a Load(r) executed next finds it.
C6_StoreThenLoadReturnsValue ==
  (prog.type = ID_STORE /\ result.st = "ok") =>
    /\ \E ub \in UBOutcomes :
         LET a == Run(prog.argument, pre, ub) IN a.st = "ok" /\ a.val = result.val
    /\ env.registers[prog.reg_index] = result.val
    /\ \A ub \in UBOutcomes :
         LET l == Run(Load(prog.reg_index), env, ub) IN l.st = "ok" /\ l.val = result.val

C6_Witness ==
  /\ prog.type = ID_STORE
  /\ prog.reg_index = 9
  /\ result.st = "ok"
  /\ pre.registers[9] = Zero
  /\ env.registers[9] = IntVal(3)
  /\ pre.registers[1] # Zero

ConstOperands(p) ==
  p.type = ID_REM /\ p.left.type = ID_CONSTANT /\ p.right.type = ID_CONSTANT

\* C7: where the divisor does not truncate to zero, Rem(l, r) is
\* L - R * trunc(L / R) for L and R the operands truncated toward zero: its
\* sign is the dividend's (or it is zero) and its magnitude is below |R|.
C7_TruncatingRemainder ==
  (ConstOperands(prog) /\ TowardZero(prog.right.value) # 0) =>
    LET L == TowardZero(prog.left.value)
        R == TowardZero(prog.right.value)
        m == L - R * TruncDiv(L, R)
    IN /\ result.st = "ok"
       /\ result.val = IntVal(m)
       /\ (m = 0 \/ (m < 0) = (L < 0))
       /\ Abs(m) < Abs(R)
       /\ (L = 7 /\ R = 2) => result.val = IntVal(1)
       /\ (L = -7 /\ R = 2) => result.val = IntVal(-1)

C7_Witness ==
  /\ prog = Binary(ID_REM, Constant(Num(1, 7, 1)), Constant(Num(0, 5, 2)))
  /\ result.val = IntVal(-1)

\* C8: Rem(l, r) with a divisor that truncates to zero ends in a reported
\* error, not in a trap or an ordinary number.
C8_RemByZeroIsReported ==
  (ConstOperands(prog) /\ TowardZero(prog.right.value) = 0) => result.st = "error"

\* The registers that the Store nodes of a tree name.
RECURSIVE StoreRegs(_)
StoreRegs(p) ==
  CASE p.type \in BinaryTypes -> StoreRegs(p.left) \cup StoreRegs(p.right)
    [] p.type = ID_SQRT -> StoreRegs(p.argument)
    [] p.type = ID_STORE -> {p.reg_index} \cup StoreRegs(p.argument)
    [] OTHER -> {}

\* C9: execution changes no input, changes no register that no Store node
\* of the tree names, and changes nothing when the tree has no Store node.
C9_OnlyStoreWrites ==
  prog # NoTree =>
    /\ env.inputs = pre.inputs
    /\ \A i \in Registers \ StoreRegs(prog) : env.registers[i] = pre.registers[i]
    /\ StoreRegs(prog) = {} => env = pre

C9_Witness ==
  /\ prog # NoTree
  /\ StoreRegs(prog) = {1}
  /\ env.registers[1] # pre.registers[1]
  /\ pre.registers[2] # Zero
  /\ pre.inputs[X] # Zero

\* C10: functions[16], functions[17] and functions[18] load no register
\* before storing to it, so their result is the one a fresh all-zero
\* environment with the same x gives, whatever the registers held.
FreshEnv(e) == [ZeroEnv EXCEPT !.inputs[X] = e.inputs[X]]

C10_RegistersDoNotLeak ==
  prog \in ReferencePrograms =>
    /\ result.st = "ok"
    /\ result.early = {}
    /\ \A ub \in UBOutcomes : result.val = Run(prog, FreshEnv(pre), ub).val

C10_Witness ==
  /\ prog = Program17
  /\ pre.registers[1] # Zero
  /\ pre.registers[2] # Zero
  /\ pre.registers[1] # env.registers[1]
  /\ rounds = 2

=============================================================================
